---- MODULE Spec2Model ----
(***************************************************************************)
(* Leaflet geo core: LatLng (src/unnamed/part_000, the file imported as    *)
(* ./LatLng.js) and LatLngBounds (src/src/geo/LatLngBounds.js).            *)
(*                                                                         *)
(* LatLng and LatLngBounds objects live on two heaps and are named by      *)
(* their index, so that aliasing (a constructor returning its argument,    *)
(* a corner shared between two bounds) is visible.  The caller holds       *)
(* references in pvars (LatLng variables) and bvars (LatLngBounds          *)
(* variables); objects no variable reaches are dropped, as the JavaScript  *)
(* runtime does.  thrown is the exception the last call ended with, call   *)
(* a `new LatLng(lat, lng, alt)` expression the caller is evaluating.      *)
(***************************************************************************)
EXTENDS Integers, Sequences, FiniteSets, TLC

VARIABLES latlngs, boundsHeap, pvars, bvars, thrown, call

vars == <<latlngs, boundsHeap, pvars, bvars, thrown, call>>

\* Finite coordinates handed to the constructors are 0..MaxCoord.
MaxCoord == 1

\* The caller's variables: p holds a LatLng, b and c hold LatLngBounds.
PVarNames == <<"p">>
BVarNames == <<"b", "c">>

(***************************************************************************)
(* JavaScript values.  Every primitive is a record [t, v] with v an        *)
(* integer: a finite number, NaN, +-Infinity, undefined, null, a numeric   *)
(* string, a non-numeric string, or a plain object {} (as an element).     *)
(***************************************************************************)
Fin(n) == [t |-> "number", v |-> n]
NaN == [t |-> "NaN", v |-> 0]
Infinity == [t |-> "Infinity", v |-> 1]
NegInfinity == [t |-> "Infinity", v |-> -1]
Undefined == [t |-> "undefined", v |-> 0]
Null == [t |-> "null", v |-> 0]
NumString(n) == [t |-> "string", v |-> n]
BadString == [t |-> "badstring", v |-> 0]
EmptyObject == [t |-> "object", v |-> 0]

IsNaN(a) == a.t = "NaN"
IsFinite(a) == a.t = "number"

\* Position of a non-NaN number on the extended real line: -2, 0 or 2.
Cls(a) == IF a.t = "Infinity" THEN 2 * a.v ELSE 0

\* a < b and a <= b on numbers: false as soon as one side is NaN.
Lt(a, b) ==
    /\ ~IsNaN(a) /\ ~IsNaN(b)
    /\ \/ Cls(a) < Cls(b)
       \/ IsFinite(a) /\ IsFinite(b) /\ a.v < b.v

Le(a, b) ==
    /\ ~IsNaN(a) /\ ~IsNaN(b)
    /\ \/ Cls(a) < Cls(b)
       \/ Cls(a) = Cls(b) /\ (a.t = "Infinity" \/ a.v <= b.v)

Ge(a, b) == Le(b, a)
Gt(a, b) == Lt(b, a)

\* Math.min / Math.max: NaN if either argument is NaN.
MathMin(a, b) ==
    IF IsNaN(a) \/ IsNaN(b) THEN NaN ELSE IF Lt(b, a) THEN b ELSE a

MathMax(a, b) ==
    IF IsNaN(a) \/ IsNaN(b) THEN NaN ELSE IF Lt(a, b) THEN b ELSE a

Neg(a) ==
    IF IsNaN(a) THEN NaN
    ELSE IF a.t = "Infinity" THEN [t |-> "Infinity", v |-> 0 - a.v]
    ELSE Fin(0 - a.v)

Add(a, b) ==
    IF IsNaN(a) \/ IsNaN(b) THEN NaN
    ELSE IF a.t = "Infinity" /\ b.t = "Infinity"
         THEN (IF a.v = b.v THEN a ELSE NaN)
    ELSE IF a.t = "Infinity" THEN a
    ELSE IF b.t = "Infinity" THEN b
    ELSE Fin(a.v + b.v)

Sub(a, b) == Add(a, Neg(b))

MathAbs(a) == IF IsNaN(a) THEN NaN
              ELSE IF a.t = "Infinity" THEN Infinity
              ELSE IF a.v < 0 THEN Fin(0 - a.v) ELSE a

\* Unary plus (ToNumber): a numeric string and a one-number array [n] convert to
\* the number, undefined, a non-numeric string and {} to NaN, null to 0.
ToNumber(x) ==
    CASE x.t \in {"number", "NaN", "Infinity"} -> x
      [] x.t = "undefined" -> NaN
      [] x.t = "null" -> Fin(0)
      [] x.t \in {"string", "numarray"} -> Fin(x.v)
      [] OTHER -> NaN

\* ToBoolean: 0, NaN, undefined and null are falsy; the strings modelled are
\* non-empty, hence truthy; every object is truthy.
Truthy(x) ==
    CASE x.t = "number" -> x.v # 0
      [] x.t \in {"NaN", "undefined", "null"} -> FALSE
      [] OTHER -> TRUE

\* x === 0
IsZero(x) == x.t = "number" /\ x.v = 0

\* typeof x === 'object'
TypeofObject(x) ==
    x.t \in {"null", "object", "array", "numarray", "record", "LatLng", "LatLngBounds"}

(***************************************************************************)
(* Composite arguments: an array literal, a plain object with some of the  *)
(* keys lat, lng, lon, alt, and references to heap objects.                *)
(***************************************************************************)
Arr(elems) == [t |-> "array", elems |-> elems]
Rec(keys, lat, lng, lon, alt) ==
    [t |-> "record", keys |-> keys, lat |-> lat, lng |-> lng, lon |-> lon, alt |-> alt]
LatLngRef(i) == [t |-> "LatLng", id |-> i]
BoundsRef(i) == [t |-> "LatLngBounds", id |-> i]

\* Property read on a plain object: undefined when the key is absent.
Get(o, k) ==
    IF k \notin o.keys THEN Undefined
    ELSE CASE k = "lat" -> o.lat
           [] k = "lng" -> o.lng
           [] k = "lon" -> o.lon
           [] OTHER -> o.alt

\* LatLng.validate(lat, lng, alt): "true", "false", or "TypeError" ('lat' in null).
validate(lat, lng, alt) ==
    IF lat.t = "LatLng" THEN "true"
    ELSE IF lat.t = "null" THEN "TypeError"
    ELSE IF lat.t = "record" /\ "lat" \in lat.keys THEN "true"
    ELSE IF lat.t = "array" /\ (Len(lat.elems) = 0 \/ ~TypeofObject(lat.elems[1]))
         THEN (IF Len(lat.elems) = 3 \/ Len(lat.elems) = 2 THEN "true" ELSE "false")
    ELSE IF (Truthy(lat) \/ IsZero(lat)) /\ (Truthy(lng) \/ IsZero(lng)) THEN "true"
    ELSE "false"

\* The object `new LatLng(lat, lng)` builds from numbers: fields after the casts.
MkLatLng(lat, lng, alt) ==
    [lat |-> ToNumber(lat), lng |-> ToNumber(lng),
     alt |-> IF alt.t = "undefined" THEN Undefined ELSE ToNumber(alt)]

\* construct without the typeof lat[0] === 'object' test on an array argument.
constructUnchecked(valid, lat, lng, alt) ==
    LET At(i) == IF i <= Len(lat.elems) THEN lat.elems[i] ELSE Undefined
    IN  IF valid = "TypeError" THEN [k |-> "throw", e |-> "TypeError"]
        ELSE IF valid = "false" THEN [k |-> "throw", e |-> "Error"]
        ELSE IF lat.t = "LatLng" THEN [k |-> "same", id |-> lat.id]
        ELSE IF lat.t = "array" THEN
            IF Len(lat.elems) = 3
            THEN [k |-> "new", obj |-> MkLatLng(At(1), At(2), At(3))]
            ELSE IF Len(lat.elems) = 2
                 THEN [k |-> "new", obj |-> MkLatLng(At(1), At(2), Undefined)]
            ELSE [k |-> "throw", e |-> "Error"]
        ELSE IF lat.t = "record" /\ "lat" \in lat.keys THEN
            [k |-> "new",
             obj |-> MkLatLng(Get(lat, "lat"),
                              IF "lng" \in lat.keys THEN Get(lat, "lng") ELSE Get(lat, "lon"),
                              Get(lat, "alt"))]
        ELSE [k |-> "new", obj |-> MkLatLng(lat, lng, alt)]

\* The body of the constructor once validate has answered `valid`.  The outcome
\* is one of
\*   [k |-> "throw", e |-> "Error" | "TypeError"]
\*   [k |-> "same",  id |-> i]       the argument itself is returned
\*   [k |-> "new",   obj |-> fields] a fresh object
\* Array elements beyond the array's length read as undefined.
construct(valid, lat, lng, alt) ==
    LET At(i) == IF i <= Len(lat.elems) THEN lat.elems[i] ELSE Undefined
    IN  IF valid = "TypeError" THEN [k |-> "throw", e |-> "TypeError"]
        ELSE IF valid = "false" THEN [k |-> "throw", e |-> "Error"]
        ELSE IF lat.t = "LatLng" THEN [k |-> "same", id |-> lat.id]
        ELSE IF lat.t = "array" THEN
            IF TypeofObject(At(1)) THEN [k |-> "throw", e |-> "Error"]
            ELSE IF Len(lat.elems) = 3
                 THEN [k |-> "new", obj |-> MkLatLng(At(1), At(2), At(3))]
            ELSE IF Len(lat.elems) = 2
                 THEN [k |-> "new", obj |-> MkLatLng(At(1), At(2), Undefined)]
            ELSE [k |-> "throw", e |-> "Error"]
        ELSE IF lat.t = "record" /\ "lat" \in lat.keys THEN
            [k |-> "new",
             obj |-> MkLatLng(Get(lat, "lat"),
                              IF "lng" \in lat.keys THEN Get(lat, "lng") ELSE Get(lat, "lon"),
                              Get(lat, "alt"))]
        ELSE [k |-> "new", obj |-> MkLatLng(lat, lng, alt)]

\* new LatLng(lat, lng, alt)
LatLngCtor(lat, lng, alt) == construct(validate(lat, lng, alt), lat, lng, alt)

(***************************************************************************)
(* LatLngBounds.  A bounds object is [sw, ne]: ids of LatLng objects on    *)
(* the heap ll, 0 for an unset corner.  Every operation works on the pair  *)
(* of heaps (ll, bh) and returns the heaps after it with e, the exception  *)
(* it ended with ("none" if it returned).                                  *)
(***************************************************************************)
NoBounds == [sw |-> 0, ne |-> 0]

Ok(ll, bh) == [ll |-> ll, bh |-> bh, e |-> "none"]
Threw(ll, bh, e) == [ll |-> ll, bh |-> bh, e |-> e]

\* setCorners that stores the south-west corner and forgets the north-east one.
setCornersHalf(ll, bh, b, c1, c2) ==
    IF c1.k = "throw" THEN Threw(ll, bh, c1.e)
    ELSE IF c2.k = "throw"
         THEN Threw(Append(ll, c1.obj), [bh EXCEPT ![b].sw = Len(ll) + 1], c2.e)
    ELSE Ok(ll \o <<c1.obj, c2.obj>>, [bh EXCEPT ![b].sw = Len(ll) + 1])

\* this._southWest = c1; this._northEast = c2; where c1 and c2 are the outcomes
\* of the two constructor calls, evaluated in this order: the first assignment
\* has happened when the second call throws.
setCorners(ll, bh, b, c1, c2) ==
    IF c1.k = "throw" THEN Threw(ll, bh, c1.e)
    ELSE IF c2.k = "throw"
         THEN Threw(Append(ll, c1.obj), [bh EXCEPT ![b].sw = Len(ll) + 1], c2.e)
    ELSE Ok(ll \o <<c1.obj, c2.obj>>, [bh EXCEPT ![b] = [sw |-> Len(ll) + 1, ne |-> Len(ll) + 2]])

\* this._southWest = new LatLng(sw2.lat, sw2.lng);
\* this._northEast = new LatLng(ne2.lat, ne2.lng);
\* Each constructor call validates its numbers and may throw.
extendEmpty(ll, bh, b, sw2, ne2) ==
    setCorners(ll, bh, b,
               LatLngCtor(ll[sw2].lat, ll[sw2].lng, Undefined),
               LatLngCtor(ll[ne2].lat, ll[ne2].lng, Undefined))

\* sw.lat = Math.min(sw2.lat, sw.lat); sw.lng = Math.min(sw2.lng, sw.lng);
\* ne.lat = Math.max(ne2.lat, ne.lat); ne.lng = Math.max(ne2.lng, ne.lng);
\* four assignments in this order, each reading the heap the previous one left
\* (sw2 or ne2 may be the very object sw or ne).
extendDefined(ll, bh, b, sw2, ne2) ==
    LET sw == bh[b].sw
        ne == bh[b].ne
        l1 == [ll EXCEPT ![sw].lat = MathMin(ll[sw2].lat, ll[sw].lat)]
        l2 == [l1 EXCEPT ![sw].lng = MathMin(l1[sw2].lng, l1[sw].lng)]
        l3 == [l2 EXCEPT ![ne].lat = MathMax(l2[ne2].lat, l2[ne].lat)]
        l4 == [l3 EXCEPT ![ne].lng = MathMax(l3[ne2].lng, l3[ne].lng)]
    IN  Ok(l4, bh)

\* Lines 110-118 of extend, once sw2 and ne2 are known LatLng objects.  A
\* half-set receiver (one corner unset) takes the else branch and fails on the
\* unset corner's property access.
extendCorners(ll, bh, b, sw2, ne2) ==
    IF bh[b].sw = 0 /\ bh[b].ne = 0 THEN extendEmpty(ll, bh, b, sw2, ne2)
    ELSE IF bh[b].sw = 0 \/ bh[b].ne = 0 THEN Threw(ll, bh, "TypeError")
    ELSE extendDefined(ll, bh, b, sw2, ne2)

\* this.extend(<the LatLng a constructor call just built, outcome c>)
extendNew(ll, bh, b, c) ==
    IF c.k = "throw" THEN Threw(ll, bh, c.e)
    ELSE extendCorners(Append(ll, c.obj), bh, b, Len(ll) + 1, Len(ll) + 1)

RECURSIVE extend(_, _, _, _), extendAll(_, _, _, _), BoundsCtor(_, _, _, _)
RECURSIVE extendBuilt(_, _), extendRest(_, _, _)

\* extend(obj) on the bounds object b.
extend(ll, bh, b, obj) ==
    IF obj.t = "LatLng" THEN extendCorners(ll, bh, b, obj.id, obj.id)
    ELSE IF obj.t = "LatLngBounds" THEN
        IF bh[obj.id].sw = 0 \/ bh[obj.id].ne = 0 THEN Ok(ll, bh)
        ELSE extendCorners(ll, bh, b, bh[obj.id].sw, bh[obj.id].ne)
    ELSE IF ~Truthy(obj) THEN Ok(ll, bh)
    ELSE IF validate(obj, Undefined, Undefined) = "true"
         THEN extendNew(ll, bh, b, LatLngCtor(obj, Undefined, Undefined))
    ELSE extendBuilt(BoundsCtor(ll, bh, obj, Undefined), b)

\* this.extend(<the LatLngBounds a constructor call just built, result r>)
extendBuilt(r, b) ==
    IF r.e # "none" THEN Threw(r.ll, r.bh, r.e)
    ELSE extend(r.ll, r.bh, b, BoundsRef(r.ret))

\* for (const latlng of latlngs) { this.extend(latlng); }
extendAll(ll, bh, b, objs) ==
    IF objs = <<>> THEN Ok(ll, bh)
    ELSE extendRest(extend(ll, bh, b, Head(objs)), b, Tail(objs))

\* The rest of the loop after one extend, which ended as r.
extendRest(r, b, objs) ==
    IF r.e # "none" THEN r ELSE extendAll(r.ll, r.bh, b, objs)

\* What the constructor evaluates to after its loop ended as r.
built(r, this) ==
    [ll |-> r.ll, bh |-> r.bh, e |-> r.e, ret |-> IF r.e = "none" THEN this ELSE 0]

\* The constructor without its `corner1 instanceof LatLngBounds` return: the
\* bounds passed is handed to the loop, which cannot iterate it.
BoundsCtorNoReturn(ll, bh, corner1, corner2) ==
    IF ~Truthy(corner1)
    THEN [ll |-> ll, bh |-> Append(bh, NoBounds), e |-> "none", ret |-> Len(bh) + 1]
    ELSE IF ~Truthy(corner2) /\ corner1.t # "array"
         THEN [ll |-> ll, bh |-> bh, e |-> "TypeError", ret |-> 0]
    ELSE built(extendAll(ll, Append(bh, NoBounds), Len(bh) + 1,
                         IF Truthy(corner2) THEN <<corner1, corner2>> ELSE corner1.elems),
               Len(bh) + 1)

\* new LatLngBounds(corner1, corner2): the heaps after it, e, and ret, the id
\* of the object the expression evaluates to (0 when it threw).  A value the
\* for-of loop cannot iterate raises TypeError.
BoundsCtor(ll, bh, corner1, corner2) ==
    IF ~Truthy(corner1)
    THEN [ll |-> ll, bh |-> Append(bh, NoBounds), e |-> "none", ret |-> Len(bh) + 1]
    ELSE IF corner1.t = "LatLngBounds"
         THEN [ll |-> ll, bh |-> bh, e |-> "none", ret |-> corner1.id]
    ELSE IF ~Truthy(corner2) /\ corner1.t # "array"
         THEN [ll |-> ll, bh |-> bh, e |-> "TypeError", ret |-> 0]
    ELSE built(extendAll(ll, Append(bh, NoBounds), Len(bh) + 1,
                         IF Truthy(corner2) THEN <<corner1, corner2>> ELSE corner1.elems),
               Len(bh) + 1)

\* The bounds object b is properly initialized (isValid).
isValid(bh, b) == bh[b].sw # 0 /\ bh[b].ne # 0

\* a * bufferRatio, the ratio being the fraction r.n / r.d; the model's finite
\* numbers are integers, and pad is taken where the product is one.
Mul(a, r) ==
    IF IsNaN(a) THEN NaN
    ELSE IF a.t = "Infinity"
         THEN (IF r.n = 0 THEN NaN ELSE IF r.n > 0 THEN a ELSE Neg(a))
    ELSE Fin((a.v * r.n) \div r.d)

Exact(a, r) == IsFinite(a) => (a.v * r.n) % r.d = 0

\* new LatLngBounds(c1, c2) on the outcomes of pad's two new LatLng calls.
padBuild(ll, bh, c1, c2) ==
    IF c1.k = "throw" THEN [ll |-> ll, bh |-> bh, e |-> c1.e, ret |-> 0]
    ELSE IF c2.k = "throw" THEN [ll |-> ll, bh |-> bh, e |-> c2.e, ret |-> 0]
    ELSE BoundsCtor(ll \o <<c1.obj, c2.obj>>, bh,
                    LatLngRef(Len(ll) + 1), LatLngRef(Len(ll) + 2))

\* pad's two corners from sw, ne and the two buffers.
padCorners(ll, bh, sw, ne, heightBuffer, widthBuffer) ==
    padBuild(ll, bh,
             LatLngCtor(Sub(sw.lat, heightBuffer), Sub(sw.lng, widthBuffer), Undefined),
             LatLngCtor(Add(ne.lat, heightBuffer), Add(ne.lng, widthBuffer), Undefined))

\* A pad that moves the receiver's own corners and returns the receiver.
padInPlace(ll, bh, b, r) ==
    IF bh[b].sw = 0 \/ bh[b].ne = 0
    THEN [ll |-> ll, bh |-> bh, e |-> "TypeError", ret |-> 0]
    ELSE [ll |-> [ll EXCEPT
                    ![bh[b].sw].lat = Sub(@, Mul(MathAbs(Sub(ll[bh[b].sw].lat, ll[bh[b].ne].lat)), r)),
                    ![bh[b].ne].lat = Add(@, Mul(MathAbs(Sub(ll[bh[b].sw].lat, ll[bh[b].ne].lat)), r))],
          bh |-> bh, e |-> "none", ret |-> b]

\* pad(bufferRatio) on the bounds object b; reading a corner of an empty bounds
\* is a TypeError.
pad(ll, bh, b, r) ==
    IF bh[b].sw = 0 \/ bh[b].ne = 0
    THEN [ll |-> ll, bh |-> bh, e |-> "TypeError", ret |-> 0]
    ELSE padCorners(ll, bh, ll[bh[b].sw], ll[bh[b].ne],
                    Mul(MathAbs(Sub(ll[bh[b].sw].lat, ll[bh[b].ne].lat)), r),
                    Mul(MathAbs(Sub(ll[bh[b].sw].lng, ll[bh[b].ne].lng)), r))

\* (sw2.lat >= sw.lat) && (ne2.lat <= ne.lat) && (sw2.lng >= sw.lng) && (ne2.lng <= ne.lng)
containsCorners(sw, ne, sw2, ne2) ==
    /\ Ge(sw2.lat, sw.lat) /\ Le(ne2.lat, ne.lat)
    /\ Ge(sw2.lng, sw.lng) /\ Le(ne2.lng, ne.lng)

\* contains, the argument converted to a LatLng (outcome c of the constructor).
containsPoint(ll, bh, b, c) ==
    IF c.k = "throw" THEN c.e
    ELSE IF bh[b].sw = 0 \/ bh[b].ne = 0 THEN "TypeError"
    ELSE IF containsCorners(ll[bh[b].sw], ll[bh[b].ne],
                            IF c.k = "same" THEN ll[c.id] ELSE c.obj,
                            IF c.k = "same" THEN ll[c.id] ELSE c.obj)
         THEN "true" ELSE "false"

\* contains, the argument converted to a LatLngBounds (result r of the constructor).
containsBounds(ll, bh, b, r) ==
    IF r.e # "none" THEN r.e
    ELSE IF r.bh[r.ret].sw = 0 \/ r.bh[r.ret].ne = 0 \/ bh[b].sw = 0 \/ bh[b].ne = 0
         THEN "TypeError"
    ELSE IF containsCorners(ll[bh[b].sw], ll[bh[b].ne],
                            r.ll[r.bh[r.ret].sw], r.ll[r.bh[r.ret].ne])
         THEN "true" ELSE "false"

\* contains(obj) on the bounds object b, obj a LatLng, a LatLngBounds or an
\* array literal: "true", "false", or the exception raised (a corner read on
\* an unset corner is a TypeError).
contains(ll, bh, b, obj) ==
    IF validate(obj, Undefined, Undefined) = "TypeError" THEN "TypeError"
    ELSE IF validate(obj, Undefined, Undefined) = "true"
         THEN containsPoint(ll, bh, b, LatLngCtor(obj, Undefined, Undefined))
    ELSE containsBounds(ll, bh, b, BoundsCtor(ll, bh, obj, Undefined))

\* latIntersects && lngIntersects, on the corners.
intersectsCorners(sw, ne, sw2, ne2) ==
    /\ Ge(ne2.lat, sw.lat) /\ Le(sw2.lat, ne.lat)
    /\ Ge(ne2.lng, sw.lng) /\ Le(sw2.lng, ne.lng)

\* overlapsCorners with the inclusive comparisons of intersects.
overlapsInclusive(sw, ne, sw2, ne2) ==
    /\ Ge(ne2.lat, sw.lat) /\ Le(sw2.lat, ne.lat)
    /\ Ge(ne2.lng, sw.lng) /\ Le(sw2.lng, ne.lng)

\* latOverlaps && lngOverlaps, on the corners.
overlapsCorners(sw, ne, sw2, ne2) ==
    /\ Gt(ne2.lat, sw.lat) /\ Lt(sw2.lat, ne.lat)
    /\ Gt(ne2.lng, sw.lng) /\ Lt(sw2.lng, ne.lng)

\* intersects(bounds) on the bounds object b, the argument a LatLngBounds c.
intersects(ll, bh, b, c) ==
    IF bh[c].sw = 0 \/ bh[c].ne = 0 \/ bh[b].sw = 0 \/ bh[b].ne = 0 THEN "TypeError"
    ELSE IF intersectsCorners(ll[bh[b].sw], ll[bh[b].ne], ll[bh[c].sw], ll[bh[c].ne])
         THEN "true" ELSE "false"

\* overlaps(bounds) on the bounds object b, the argument a LatLngBounds c.
overlaps(ll, bh, b, c) ==
    IF bh[c].sw = 0 \/ bh[c].ne = 0 \/ bh[b].sw = 0 \/ bh[b].ne = 0 THEN "TypeError"
    ELSE IF overlapsCorners(ll[bh[b].sw], ll[bh[b].ne], ll[bh[c].sw], ll[bh[c].ne])
         THEN "true" ELSE "false"

(***************************************************************************)
(* The caller's variables and the reachable part of the heaps.             *)
(***************************************************************************)
RECURSIVE Dedupe(_, _)
\* The non-zero ids of s in order of first appearance, after those of acc.
Dedupe(s, acc) ==
    IF s = <<>> THEN acc
    ELSE IF Head(s) = 0 \/ (\E k \in 1..Len(acc) : acc[k] = Head(s))
         THEN Dedupe(Tail(s), acc)
    ELSE Dedupe(Tail(s), Append(acc, Head(s)))

Pos(order, id) == IF id = 0 THEN 0 ELSE CHOOSE k \in 1..Len(order) : order[k] = id

RECURSIVE Corners(_, _)
Corners(bh, order) ==
    IF order = <<>> THEN <<>>
    ELSE <<bh[Head(order)].sw, bh[Head(order)].ne>> \o Corners(bh, Tail(order))

PSlots == {PVarNames[k] : k \in 1..Len(PVarNames)}
BSlots == {BVarNames[k] : k \in 1..Len(BVarNames)}

\* The state the caller can observe: the objects reachable from its variables,
\* numbered in the order the variables reach them.
Commit(ll, bh, pv, bv, e) ==
    LET bOrder == Dedupe([k \in 1..Len(BVarNames) |-> bv[BVarNames[k]]], <<>>)
        lOrder == Dedupe([k \in 1..Len(PVarNames) |-> pv[PVarNames[k]]]
                            \o Corners(bh, bOrder), <<>>)
    IN  /\ latlngs' = [k \in 1..Len(lOrder) |-> ll[lOrder[k]]]
        /\ boundsHeap' = [k \in 1..Len(bOrder) |->
                            [sw |-> Pos(lOrder, bh[bOrder[k]].sw),
                             ne |-> Pos(lOrder, bh[bOrder[k]].ne)]]
        /\ pvars' = [x \in PSlots |-> Pos(lOrder, pv[x])]
        /\ bvars' = [x \in BSlots |-> Pos(bOrder, bv[x])]
        /\ thrown' = e

\* A call that threw before it changed anything the caller can reach.
Raise(e) == thrown' = e /\ UNCHANGED <<latlngs, boundsHeap, pvars, bvars>>

Idle == [pc |-> "idle", lat |-> Undefined, lng |-> Undefined, alt |-> Undefined]

Init ==
    /\ latlngs = <<>>
    /\ boundsHeap = <<>>
    /\ pvars = [x \in PSlots |-> 0]
    /\ bvars = [x \in BSlots |-> 0]
    /\ thrown = "none"
    /\ call = Idle

\* pvars[slot] = <the outcome c of a LatLng construction>
Assign(slot, c) ==
    CASE c.k = "throw" -> Raise(c.e)
      [] c.k = "same" ->
            Commit(latlngs, boundsHeap, [pvars EXCEPT ![slot] = c.id], bvars, "none")
      [] OTHER ->
            Commit(Append(latlngs, c.obj), boundsHeap,
                   [pvars EXCEPT ![slot] = Len(latlngs) + 1], bvars, "none")

\* pvars[slot] = new LatLng(lat, lng, alt)
NewLatLng(slot, lat, lng, alt) ==
    /\ call.pc = "idle"
    /\ Assign(slot, LatLngCtor(lat, lng, alt))
    /\ UNCHANGED call

\* bvars[slot] = <the result r of an expression that builds a LatLngBounds>
Bind(slot, r) ==
    IF r.e # "none" THEN Raise(r.e)
    ELSE Commit(r.ll, r.bh, pvars, [bvars EXCEPT ![slot] = r.ret], "none")

\* The state after a call on an object the caller holds ended as r.
After(r) == Commit(r.ll, r.bh, pvars, bvars, r.e)

\* bvars[slot] = new LatLngBounds(corner1, corner2)
NewBounds(slot, corner1, corner2) ==
    /\ Bind(slot, BoundsCtor(latlngs, boundsHeap, corner1, corner2))
    /\ UNCHANGED call

\* bvars[i].extend(obj)
Extend(i, obj) ==
    /\ bvars[i] # 0
    /\ After(extend(latlngs, boundsHeap, bvars[i], obj))
    /\ UNCHANGED call

\* Coordinates pad may produce lie within MaxPad of the constructors' range.
MaxPad == 1
\* Longest point sequence handed to the constructor or to extend.
MaxSeq == 2
\* bufferRatio ranges over the halves -MaxRatio/2 .. MaxRatio/2.
MaxRatio == 2

Ratios == {[n |-> k, d |-> 2] : k \in (0 - MaxRatio)..MaxRatio}

InRange(a) == IsFinite(a) => (0 - MaxPad <= a.v /\ a.v <= MaxCoord + MaxPad)

\* bvars[slot] = bvars[i].pad(r)
Pad(slot, i, r) ==
    /\ bvars[i] # 0
    /\ LET b == boundsHeap[bvars[i]]
       IN  b.sw # 0 /\ b.ne # 0 =>
              LET sw == latlngs[b.sw]
                  ne == latlngs[b.ne]
                  h == MathAbs(Sub(sw.lat, ne.lat))
                  w == MathAbs(Sub(sw.lng, ne.lng))
              IN  /\ Exact(h, r) /\ Exact(w, r)
                  /\ InRange(Sub(sw.lat, Mul(h, r))) /\ InRange(Add(ne.lat, Mul(h, r)))
                  /\ InRange(Sub(sw.lng, Mul(w, r))) /\ InRange(Add(ne.lng, Mul(w, r)))
    /\ Bind(slot, pad(latlngs, boundsHeap, bvars[i], r))
    /\ UNCHANGED call

(***************************************************************************)
(* Arguments the caller passes.                                            *)
(***************************************************************************)
Coords == {Fin(n) : n \in 0..MaxCoord}

\* Array literals [lat, lng] of finite numbers.
Literals == {Arr(<<a, b>>) : a \in Coords, b \in Coords}

\* Array literals whose latitude is NaN.
NaNLiterals == {Arr(<<NaN, b>>) : b \in Coords}

\* The LatLng objects the caller's variables hold.
VarRefs == {LatLngRef(pvars[x]) : x \in {y \in PSlots : pvars[y] # 0}}

\* Every LatLng the caller can reach: its own variables and, through
\* getSouthWest / getNorthEast, the corners of its bounds.
PointRefs == {LatLngRef(i) : i \in 1..Len(latlngs)}

BoundsRefs == {BoundsRef(i) : i \in 1..Len(boundsHeap)}

RefSeqs == UNION {[1..n -> VarRefs] : n \in 0..MaxSeq}

\* The constructors and extend, over points the caller holds and literals.
Next ==
    \/ \E slot \in PSlots, a \in Coords, b \in Coords : NewLatLng(slot, a, b, Undefined)
    \/ \E slot \in PSlots, q \in VarRefs : NewLatLng(slot, q, Undefined, Undefined)
    \/ \E slot \in BSlots : NewBounds(slot, Undefined, Undefined)
    \/ \E slot \in BSlots, r \in BoundsRefs : NewBounds(slot, r, Undefined)
    \/ \E slot \in BSlots, c1 \in VarRefs, c2 \in PointRefs : NewBounds(slot, c1, c2)
    \/ \E slot \in BSlots, s \in RefSeqs : NewBounds(slot, Arr(s), Undefined)
    \/ \E i \in BSlots : Extend(i, Undefined)
    \/ \E i \in BSlots, q \in PointRefs : Extend(i, q)
    \/ \E i \in BSlots, r \in BoundsRefs : Extend(i, r)
    \/ \E i \in BSlots, lit \in Literals \cup NaNLiterals : Extend(i, lit)
    \/ \E i \in BSlots, s \in RefSeqs : Extend(i, Arr(s))

Spec == Init /\ [][Next]_vars

\* Bounds built from literals, extended and padded.
NextPad ==
    \/ \E slot \in BSlots : NewBounds(slot, Undefined, Undefined)
    \/ \E slot \in BSlots, r \in BoundsRefs : NewBounds(slot, r, Undefined)
    \/ \E i \in BSlots : Extend(i, Undefined)
    \/ \E i \in BSlots, r \in BoundsRefs : Extend(i, r)
    \/ \E i \in BSlots, lit \in Literals \cup NaNLiterals : Extend(i, lit)
    \/ \E slot \in BSlots, i \in BSlots, r \in Ratios : Pad(slot, i, r)

SpecPad == Init /\ [][NextPad]_vars


(***************************************************************************)
(* LatLng construction alone, over every accepted and rejected shape.      *)
(***************************************************************************)
NumArray(n) == [t |-> "numarray", v |-> n]

\* Scalars passed as lat and lng.
PrimVals == Coords \cup {Fin(-1), NaN, Infinity, NegInfinity, Undefined, Null,
                         NumString(1), BadString}

\* Altitudes passed.
AltVals == {Undefined, Fin(0), Fin(MaxCoord)}

\* Elements of an array argument: numbers, undefined, a non-numeric string, and
\* the objects null, {} and [1].
ElemVals == {Fin(0), Fin(1), NaN, Undefined, BadString, Null, EmptyObject, NumArray(1)}

ArrayLits == UNION {[1..n -> ElemVals] : n \in 0..4}

\* Plain objects with any of the keys lat, lng, lon, alt.
Records == {Rec(ks, Fin(1), a, b, Undefined) :
               ks \in SUBSET {"lat", "lng", "lon"}, a \in {Fin(0), Infinity}, b \in {Fin(MaxCoord)}}
           \cup {Rec({"lat", "lng", "alt"}, Fin(0), Fin(1), Undefined, Fin(MaxCoord))}

\* The caller starts evaluating new LatLng(lat, lng, alt).
Issue(lat, lng, alt) ==
    /\ call.pc = "idle"
    /\ call' = [pc |-> "call", lat |-> lat, lng |-> lng, alt |-> alt]
    /\ UNCHANGED <<latlngs, boundsHeap, pvars, bvars, thrown>>

\* pvars[slot] = new LatLng(call.lat, call.lng, call.alt)
Construct(slot) ==
    /\ call.pc = "call"
    /\ Assign(slot, LatLngCtor(call.lat, call.lng, call.alt))
    /\ call' = [call EXCEPT !.pc = "done"]

\* One construction from numbers, then one from any shape.
NextLatLng ==
    \/ \E slot \in PSlots, a \in Coords, b \in Coords : NewLatLng(slot, a, b, Undefined)
    \/ \E lat \in PrimVals, lng \in PrimVals, alt \in AltVals : Issue(lat, lng, alt)
    \/ \E a \in ArrayLits, lng \in {Undefined, Fin(1)} : Issue(Arr(a), lng, Undefined)
    \/ \E o \in Records, lng \in {Undefined, Fin(1)} : Issue(o, lng, Undefined)
    \/ \E q \in VarRefs : Issue(q, Undefined, Undefined)
    \/ \E slot \in PSlots : Construct(slot)

SpecLatLng == Init /\ [][NextLatLng]_vars


(***************************************************************************)
(* Properties of LatLng construction (SpecLatLng).                         *)
(***************************************************************************)

\* C6: every LatLng a construction yields has a finite lat and a finite lng;
\* an input that would give a non-finite one makes the construction fail.
C6_ConstructedFinite ==
    \A i \in 1..Len(latlngs) : IsFinite(latlngs[i].lat) /\ IsFinite(latlngs[i].lng)

\* The evaluated call was given an array.
CalledWithArray == call.pc = "done" /\ call.lat.t = "array"

\* x is an object proper: {} or an array.
IsObject(x) == x.t \in {"object", "numarray"}

\* The call ended with the "Invalid LatLng object" Error and left the caller
\* with nothing but the point it held before.
RaisedInvalid ==
    /\ thrown = "Error"
    /\ \A i \in 1..Len(latlngs) :
          latlngs[i].lat \in Coords /\ latlngs[i].lng \in Coords /\ latlngs[i].alt = Undefined

BoundsIds == 1..Len(boundsHeap)
ValidIds == {b \in BoundsIds : isValid(boundsHeap, b)}
SW(b) == latlngs[boundsHeap[b].sw]
NE(b) == latlngs[boundsHeap[b].ne]

\* C1: every bounds has both corners set or neither, and when set the
\* south-west corner is at or below the north-east one on both axes.
C1_CornersOrdered ==
    \A b \in BoundsIds :
        \/ boundsHeap[b].sw = 0 /\ boundsHeap[b].ne = 0
        \/ /\ boundsHeap[b].sw # 0 /\ boundsHeap[b].ne # 0
           /\ Le(SW(b).lat, NE(b).lat) /\ Le(SW(b).lng, NE(b).lng)

\* Sequences of points the caller can reach.
PointSeqs == UNION {[1..n -> PointRefs] : n \in 0..MaxSeq}

\* The bounds r.ret of the heaps r, if built, contains every point of s.
ContainsAll(r, b, s) ==
    r.e = "none" => \A k \in 1..Len(s) : contains(r.ll, r.bh, b, s[k]) = "true"

\* C2: the bounds built from a sequence of points, by the constructor or by
\* extending an empty bounds over each point in turn, contains every point of
\* the sequence.
C2_BuiltContainsAll ==
    \A s \in PointSeqs :
        /\ ContainsAll(BoundsCtor(latlngs, boundsHeap, Arr(s), Undefined),
                       Len(boundsHeap) + 1, s)
        /\ \A b \in BoundsIds \ ValidIds :
              ContainsAll(extendAll(latlngs, boundsHeap, b, s), b, s)

\* The smaller and the larger of two numbers.
MinOf(a, b) == IF Le(a, b) THEN a ELSE b
MaxOf(a, b) == IF Ge(a, b) THEN a ELSE b

\* extend on the bounds b ended as r, the argument's corners having been the
\* values sw2 and ne2: an empty b took fresh copies of them, a defined b took
\* the per-axis minimum and maximum and contains what it was before.
Widened(b, r, sw2, ne2) ==
    r.e = "none" =>
        IF b \notin ValidIds
        THEN /\ r.bh[b].sw > Len(latlngs) /\ r.bh[b].ne > Len(latlngs)
             /\ r.bh[b].sw # r.bh[b].ne
             /\ r.ll[r.bh[b].sw].lat = sw2.lat /\ r.ll[r.bh[b].sw].lng = sw2.lng
             /\ r.ll[r.bh[b].ne].lat = ne2.lat /\ r.ll[r.bh[b].ne].lng = ne2.lng
        ELSE /\ r.bh[b] = boundsHeap[b]
             /\ r.ll[r.bh[b].sw].lat = MinOf(sw2.lat, SW(b).lat)
             /\ r.ll[r.bh[b].sw].lng = MinOf(sw2.lng, SW(b).lng)
             /\ r.ll[r.bh[b].ne].lat = MaxOf(ne2.lat, NE(b).lat)
             /\ r.ll[r.bh[b].ne].lng = MaxOf(ne2.lng, NE(b).lng)
             /\ containsCorners(r.ll[r.bh[b].sw], r.ll[r.bh[b].ne], SW(b), NE(b))

\* The point an array literal [lat, lng] denotes.
LitPoint(lit) == [lat |-> lit.elems[1], lng |-> lit.elems[2]]

\* C4: extend on an empty bounds copies the argument's corners into fresh
\* objects; on a defined bounds it sets the corners to the per-axis minimum
\* and maximum, so that the bounds after it contains the bounds before it.
C4_ExtendWidens ==
    \A b \in BoundsIds :
        /\ \A q \in PointRefs :
              Widened(b, extend(latlngs, boundsHeap, b, q), latlngs[q.id], latlngs[q.id])
        /\ \A c \in ValidIds :
              Widened(b, extend(latlngs, boundsHeap, b, BoundsRef(c)), SW(c), NE(c))
        /\ \A lit \in Literals \cup NaNLiterals :
              Widened(b, extend(latlngs, boundsHeap, b, lit), LitPoint(lit), LitPoint(lit))

\* C9: constructing a LatLngBounds from an existing LatLngBounds evaluates to
\* that very object and builds nothing, so that the two names denote one
\* object and an extend through either is seen through the other.
C9_CtorReturnsSameInstance ==
    \A b \in BoundsIds :
        BoundsCtor(latlngs, boundsHeap, BoundsRef(b), Undefined)
            = [ll |-> latlngs, bh |-> boundsHeap, e |-> "none", ret |-> b]

\* Both of the caller's variables hold one defined bounds with distinct corners.
C9_Witness ==
    /\ bvars["b"] # 0 /\ bvars["c"] = bvars["b"]
    /\ bvars["b"] \in ValidIds
    /\ SW(bvars["b"]) # NE(bvars["b"])


(***************************************************************************)
(* Properties of LatLngBounds under extend and pad (SpecPad).              *)
(***************************************************************************)

\* Every bounds that was defined before a call that left the heap bh is
\* defined after it.
StaysValid(bh) == \A j \in ValidIds : isValid(bh, j)

\* No bounds of the heap bh has one corner set and the other unset.
BothOrNeither(bh) == \A j \in 1..Len(bh) : (bh[j].sw = 0) <=> (bh[j].ne = 0)

\* extend on b ended as r: no defined bounds became empty, no bounds is left
\* half-set, and an empty b given nothing to take corners from is still empty.
ExtendKeepsState(b, r, nothing) ==
    /\ StaysValid(r.bh)
    /\ BothOrNeither(r.bh)
    /\ (b \notin ValidIds /\ nothing) => (r.bh[b] = NoBounds /\ r.e = "none")

\* The ratios whose products with both extents of the bounds b are integers.
PadRatios(b) ==
    {r \in Ratios : /\ Exact(MathAbs(Sub(SW(b).lat, NE(b).lat)), r)
                    /\ Exact(MathAbs(Sub(SW(b).lng, NE(b).lng)), r)}

\* C3: a bounds is either empty or defined (isValid), never half-set; extend
\* and pad never take a defined bounds back to empty, and extend with an
\* absent argument or an empty bounds leaves an empty bounds empty.
C3_EmptyOrDefined ==
    /\ BothOrNeither(boundsHeap)
    /\ \A b \in BoundsIds :
          /\ ExtendKeepsState(b, extend(latlngs, boundsHeap, b, Undefined), TRUE)
          /\ \A c \in BoundsIds :
                ExtendKeepsState(b, extend(latlngs, boundsHeap, b, BoundsRef(c)),
                                 c \notin ValidIds)
          /\ \A q \in PointRefs :
                ExtendKeepsState(b, extend(latlngs, boundsHeap, b, q), FALSE)
          /\ \A lit \in Literals \cup NaNLiterals :
                ExtendKeepsState(b, extend(latlngs, boundsHeap, b, lit), FALSE)
    /\ \A b \in ValidIds : \A r \in PadRatios(b) :
          /\ StaysValid(pad(latlngs, boundsHeap, b, r).bh)
          /\ BothOrNeither(pad(latlngs, boundsHeap, b, r).bh)

\* The caller holds a defined bounds that extend has widened and an empty one.
C3_Witness ==
    /\ bvars["b"] \in ValidIds
    /\ SW(bvars["b"]) # NE(bvars["b"])
    /\ bvars["c"] # 0 /\ bvars["c"] \notin ValidIds

\* The intersection of the rectangles sw..ne and sw2..ne2 has positive area.
PositiveArea(sw, ne, sw2, ne2) ==
    /\ Gt(Sub(MathMin(ne.lat, ne2.lat), MathMax(sw.lat, sw2.lat)), Fin(0))
    /\ Gt(Sub(MathMin(ne.lng, ne2.lng), MathMax(sw.lng, sw2.lng)), Fin(0))

\* C5: overlaps is true exactly when the intersection of the two bounds has
\* positive area, degenerate bounds (a point or a line) included.
C5_OverlapsIffPositiveArea ==
    \A b \in ValidIds, c \in ValidIds :
        (overlaps(latlngs, boundsHeap, b, c) = "true")
            <=> PositiveArea(SW(b), NE(b), SW(c), NE(c))

\* The extent of the rectangle sw..ne along each axis.
Height(sw, ne) == MathAbs(Sub(sw.lat, ne.lat))
Width(sw, ne) == MathAbs(Sub(sw.lng, ne.lng))

\* pad(r) on b ended as q: it returned a bounds whose corners are b's moved
\* outward by r times b's extent on each axis; larger extents for r > 0,
\* smaller ones for r < 0, where b's extent is positive; b's corners for r = 0.
Padded(b, r, q) ==
    /\ q.e = "none"
    /\ q.ll[q.bh[q.ret].sw].lat = Sub(SW(b).lat, Mul(Height(SW(b), NE(b)), r))
    /\ q.ll[q.bh[q.ret].sw].lng = Sub(SW(b).lng, Mul(Width(SW(b), NE(b)), r))
    /\ q.ll[q.bh[q.ret].ne].lat = Add(NE(b).lat, Mul(Height(SW(b), NE(b)), r))
    /\ q.ll[q.bh[q.ret].ne].lng = Add(NE(b).lng, Mul(Width(SW(b), NE(b)), r))
    /\ (r.n > 0 /\ Gt(Height(SW(b), NE(b)), Fin(0))) =>
          Gt(Height(q.ll[q.bh[q.ret].sw], q.ll[q.bh[q.ret].ne]), Height(SW(b), NE(b)))
    /\ (r.n > 0 /\ Gt(Width(SW(b), NE(b)), Fin(0))) =>
          Gt(Width(q.ll[q.bh[q.ret].sw], q.ll[q.bh[q.ret].ne]), Width(SW(b), NE(b)))
    /\ (r.n < 0 /\ Gt(Height(SW(b), NE(b)), Fin(0))) =>
          Lt(Height(q.ll[q.bh[q.ret].sw], q.ll[q.bh[q.ret].ne]), Height(SW(b), NE(b)))
    /\ (r.n < 0 /\ Gt(Width(SW(b), NE(b)), Fin(0))) =>
          Lt(Width(q.ll[q.bh[q.ret].sw], q.ll[q.bh[q.ret].ne]), Width(SW(b), NE(b)))
    /\ r.n = 0 => (q.ll[q.bh[q.ret].sw] = SW(b) /\ q.ll[q.bh[q.ret].ne] = NE(b))

\* The defined bounds whose corners are finite on both axes.
FiniteIds ==
    {b \in ValidIds : /\ IsFinite(SW(b).lat) /\ IsFinite(SW(b).lng)
                      /\ IsFinite(NE(b).lat) /\ IsFinite(NE(b).lng)}

\* C8: pad(r) on a defined bounds b of finite corners returns a bounds whose
\* corners are b's moved outward by r times b's extent on each axis; r > 0
\* gives larger extents, r < 0 smaller ones, and pad(0) equals b corner for
\* corner.
C8_PadScalesExtent ==
    \A b \in FiniteIds : \A r \in PadRatios(b) :
        Padded(b, r, pad(latlngs, boundsHeap, b, r))

\* A later extend on the bounds pad returned, ended as e2, left the receiver b
\* with the corner objects and the corner values it had.
ReceiverKept(b, e2) ==
    /\ e2.bh[b] = boundsHeap[b]
    /\ e2.ll[boundsHeap[b].sw] = SW(b)
    /\ e2.ll[boundsHeap[b].ne] = NE(b)

\* pad on b ended as q: every object that existed is as it was, and what pad
\* returned is a new bounds with corner objects of its own, on which a later
\* extend leaves b alone.
PadFresh(b, q) ==
    /\ \A j \in BoundsIds : q.bh[j] = boundsHeap[j]
    /\ \A k \in 1..Len(latlngs) : q.ll[k] = latlngs[k]
    /\ q.e = "none" =>
          /\ q.ret > Len(boundsHeap)
          /\ q.bh[q.ret].sw > Len(latlngs) /\ q.bh[q.ret].ne > Len(latlngs)
          /\ \A lit \in Literals : ReceiverKept(b, extend(q.ll, q.bh, q.ret, lit))

\* C10: pad never changes its receiver; it returns a different object, which
\* shares no corner with the receiver, so that a later extend on the result
\* does not change the receiver either.
C10_PadReturnsFreshBounds ==
    \A b \in ValidIds : \A r \in PadRatios(b) :
        PadFresh(b, pad(latlngs, boundsHeap, b, r))

\* The caller holds a bounds of positive extent in b and, in c, the distinct
\* bounds that b.pad(1) returned.
C10_Witness ==
    /\ bvars["b"] \in ValidIds /\ bvars["c"] \in ValidIds
    /\ bvars["b"] # bvars["c"]
    /\ IsFinite(SW(bvars["b"]).lat) /\ IsFinite(NE(bvars["b"]).lat)
    /\ Lt(SW(bvars["b"]).lat, NE(bvars["b"]).lat)
    /\ SW(bvars["c"]).lat = Sub(SW(bvars["b"]).lat, Height(SW(bvars["b"]), NE(bvars["b"])))
    /\ NE(bvars["c"]).lat = Add(NE(bvars["b"]).lat, Height(SW(bvars["b"]), NE(bvars["b"])))


\* The values lo..hi two intervals share are the single value lo, which is an
\* end of the interval l1..h1 and an end of the interval l2..h2.
SharedEnd(lo, hi, l1, h1, l2, h2) ==
    /\ IsFinite(lo) /\ lo = hi
    /\ lo \in {l1, h1} /\ lo \in {l2, h2}

\* The rectangles sw..ne and sw2..ne2 have a point in common, and all they
\* have in common lies on a side of the one and on a side of the other along
\* the same line: they share only an edge, part of one, or a corner.
SharesOnlyEdgeOrCorner(sw, ne, sw2, ne2) ==
    /\ Le(MathMax(sw.lat, sw2.lat), MathMin(ne.lat, ne2.lat))
    /\ Le(MathMax(sw.lng, sw2.lng), MathMin(ne.lng, ne2.lng))
    /\ \/ SharedEnd(MathMax(sw.lat, sw2.lat), MathMin(ne.lat, ne2.lat),
                    sw.lat, ne.lat, sw2.lat, ne2.lat)
       \/ SharedEnd(MathMax(sw.lng, sw2.lng), MathMin(ne.lng, ne2.lng),
                    sw.lng, ne.lng, sw2.lng, ne2.lng)

\* C11: for every pair of defined bounds whose rectangles share only an edge
\* or only a corner, overlaps returns false and intersects returns true,
\* whichever of the two is the receiver.
C11_TouchingIntersectsNotOverlaps ==
    \A b \in ValidIds, c \in ValidIds :
        SharesOnlyEdgeOrCorner(SW(b), NE(b), SW(c), NE(c)) =>
            /\ overlaps(latlngs, boundsHeap, b, c) = "false"
            /\ overlaps(latlngs, boundsHeap, c, b) = "false"
            /\ intersects(latlngs, boundsHeap, b, c) = "true"
            /\ intersects(latlngs, boundsHeap, c, b) = "true"

\* The caller holds a rectangle of positive area in b and, in c, a distinct
\* bounds lying on b's north side only; both queries answer as stated.
C11_Witness ==
    /\ bvars["b"] \in ValidIds /\ bvars["c"] \in ValidIds /\ bvars["b"] # bvars["c"]
    /\ Lt(SW(bvars["b"]).lat, NE(bvars["b"]).lat)
    /\ Lt(SW(bvars["b"]).lng, NE(bvars["b"]).lng)
    /\ SW(bvars["c"]).lat = NE(bvars["b"]).lat
    /\ SharesOnlyEdgeOrCorner(SW(bvars["b"]), NE(bvars["b"]), SW(bvars["c"]), NE(bvars["c"]))
    /\ overlaps(latlngs, boundsHeap, bvars["b"], bvars["c"]) = "false"
    /\ intersects(latlngs, boundsHeap, bvars["c"], bvars["b"]) = "true"


\* The points and the defined bounds the caller can pass to extend.
ArgRefs == PointRefs \cup {BoundsRef(c) : c \in ValidIds}
ArgSeqs == UNION {[1..n -> ArgRefs] : n \in 0..MaxSeq}

\* s with its elements i and i + 1 exchanged, and s with its element k repeated.
Swapped(s, i) ==
    [k \in 1..Len(s) |-> IF k = i THEN s[i + 1] ELSE IF k = i + 1 THEN s[i] ELSE s[k]]
Repeated(s, k) == SubSeq(s, 1, k) \o SubSeq(s, k, Len(s))

NoCorner == [lat |-> Undefined, lng |-> Undefined, alt |-> Undefined]

\* What the caller sees of the bounds b after the extends that ended as r: the
\* exception if one was raised, else the values of the two corners.
Seen(r, b) ==
    IF r.e # "none" THEN <<r.e, NoCorner, NoCorner>>
    ELSE IF r.bh[b].sw = 0 \/ r.bh[b].ne = 0 THEN <<"none", NoCorner, NoCorner>>
    ELSE <<"none", r.ll[r.bh[b].sw], r.ll[r.bh[b].ne]>>

\* A new empty bounds extended over s, argument after argument.
ExtendedOver(s) ==
    Seen(extendAll(latlngs, Append(boundsHeap, NoBounds), Len(boundsHeap) + 1, s),
         Len(boundsHeap) + 1)

\* C12: the corners of a bounds built by extending an empty bounds depend only
\* on the set of arguments: exchanging two consecutive arguments (hence any
\* permutation) gives equal corners, and repeating an argument changes nothing.
C12_ExtendOrderIndependent ==
    \A s \in ArgSeqs :
        /\ \A i \in 1..(Len(s) - 1) : ExtendedOver(Swapped(s, i)) = ExtendedOver(s)
        /\ \A k \in 1..Len(s) : ExtendedOver(Repeated(s, k)) = ExtendedOver(s)

====
